---- MODULE Spec2Model ----
(***************************************************************************)
(* Model of IshneParser (src/src/main.ts, the second, authoritative class  *)
(* at lines 202-501): header decoding from a byte buffer, demultiplexing   *)
(* of the ECG block, the summary view, and the streamed JSON / CSV / text  *)
(* exports written chunk by chunk to a sink.                               *)
(*                                                                         *)
(* Conventions.  A Uint8Array is a record [buffer, byteOffset, length]:    *)
(* its backing ArrayBuffer (a sequence of bytes), and the window it shows. *)
(* Byte offset k of a sequence s is s[k+1].  A JS number that may be       *)
(* non-finite is a record [k, n, d]: k = "fin" stands for n/d.  A JS       *)
(* string is the sequence of its code points.                              *)
(***************************************************************************)
EXTENDS Integers, Sequences, FiniteSets, TLC

VARIABLES
    buffer,   \* this.buffer: the Uint8Array the parser was constructed with
    header,   \* this.header: NoHeader (null) or the parsed header record
    lastOp,   \* the last synchronous call: which one, how it ended, what it returned
    exports,  \* the exports in flight, each with its generator and its sink
    decoder   \* what the runtime's TextDecoder("ascii") does with bytes 0x80..0x9F

vars == <<buffer, header, lastOp, exports, decoder>>

----------------------------------------------------------------------------
(* Bounds of the checked input family.                                     *)

\* nLeads values written into input headers: 0..MaxLeads
MaxLeads == 2
\* input files carry 0..MaxDataBytes bytes after the fixed header region
MaxDataBytes == 8
\* the sample count the input headers declare
DeclaredSamples == 1
\* the sink rejects a write only among the first FailWithin writes of an export
FailWithin == 2

----------------------------------------------------------------------------
(* Program constants.                                                      *)

HEADER_START == 10
BytesPerSample == 2
MicroPerUnit == 1000000
DefaultDecimalPlaces == 2
LeadSlots == 12

----------------------------------------------------------------------------
(* Numbers and bytes.                                                      *)

Fin(n) == [k |-> "fin", n |-> n, d |-> 1]
PosInf == [k |-> "+inf", n |-> 0, d |-> 1]
NegInf == [k |-> "-inf", n |-> 0, d |-> 1]
NaN == [k |-> "nan", n |-> 0, d |-> 1]

\* JS a / b on integers, kept exact: a fraction, or the IEEE result of x / 0
JsDiv(a, b) ==
    IF b # 0 THEN [k |-> "fin", n |-> a, d |-> b]
    ELSE IF a > 0 THEN PosInf ELSE IF a < 0 THEN NegInf ELSE NaN

\* Math.floor of a JS number
MathFloor(x) ==
    IF x.k # "fin" THEN x
    ELSE IF x.d > 0 THEN Fin(x.n \div x.d) ELSE Fin((0 - x.n) \div (0 - x.d))

Min(a, b) == IF a < b THEN a ELSE b

\* Uint8Array element i of the view
ByteAt(u8, i) == u8.buffer[u8.byteOffset + i + 1]

\* Uint8Array.prototype.slice(start, end): both ends clamped to the view
Slice(u8, start, end) ==
    LET s == Min(start, u8.length)
        e == Min(end, u8.length)
    IN  SubSeq(u8.buffer, u8.byteOffset + s + 1, u8.byteOffset + e)

\* new DataView(buffer.buffer): the whole backing ArrayBuffer, from its byte 0
DataViewOf(u8) == u8.buffer

\* a DataView read of w bytes at off throws RangeError unless it lies inside
InView(dv, off, w) == off >= 0 /\ off + w <= Len(dv)

getUint16(dv, off) == dv[off + 1] + 256 * dv[off + 2]

getInt16(dv, off) ==
    LET u == getUint16(dv, off) IN IF u >= 32768 THEN u - 65536 ELSE u

getUint32(dv, off) ==
    dv[off + 1] + 256 * dv[off + 2] + 65536 * dv[off + 3] + 16777216 * dv[off + 4]

\* new TextDecoder("ascii") is a windows-1252 decoder by the Encoding Standard
\* (Deno); Node's one-shot decode of that label yields U+0080..U+009F for the
\* bytes 0x80..0x9F instead.  The file runs on either, so the runtime's choice
\* is part of the state.
Decoders == {"windows-1252", "latin1"}

\* windows-1252, bytes 0x80..0x9F
Cp1252High ==
    <<8364, 129, 8218, 402, 8222, 8230, 8224, 8225, 710, 8240, 352, 8249, 338,
      141, 381, 143, 144, 8216, 8217, 8220, 8221, 8226, 8211, 8212, 732, 8482,
      353, 8250, 339, 157, 382, 376>>

\* one byte decoded by the decoder `dec`
DecodeWith(dec, b) ==
    IF dec = "windows-1252" /\ b >= 128 /\ b < 160 THEN Cp1252High[b - 127] ELSE b

DecodeByte(b) == DecodeWith(decoder, b)

TextDecode(bytes) == [i \in 1..Len(bytes) |-> DecodeByte(bytes[i])]

\* .replace(/\x00+$/, ''): drop the trailing NUL characters
RECURSIVE LastNonNul(_, _)
LastNonNul(s, n) == IF n = 0 \/ s[n] # 0 THEN n ELSE LastNonNul(s, n - 1)

StripTrailingNul(s) == SubSeq(s, 1, LastNonNul(s, Len(s)))

readString(u8, offset, length) ==
    StripTrailingNul(TextDecode(Slice(u8, offset, offset + length)))

\* "ISHNE1.0"
Magic == <<73, 83, 72, 78, 69, 49, 46, 48>>

----------------------------------------------------------------------------
(* parseHeader.                                                            *)

\* this.header = null
NoHeader == [null |-> TRUE]

\* the DataView reads parseHeader performs, <<offset, width>>, in source order
HeaderReads ==
    <<  <<HEADER_START + 0, 4>>, <<HEADER_START + 4, 4>>, <<HEADER_START + 8, 4>>,
        <<HEADER_START + 12, 4>>, <<HEADER_START + 16, 2>>,
        <<HEADER_START + 118, 2>>, <<HEADER_START + 120, 2>> >>
    \o [i \in 1..(4 * 3) |-> <<HEADER_START + 122 + (i - 1) * 2, 2>>]
    \o <<  <<HEADER_START + 146, 2>> >>
    \o [i \in 1..(3 * LeadSlots) |-> <<HEADER_START + 148 + (i - 1) * 2, 2>>]
    \o <<  <<HEADER_START + 220, 2>>, <<HEADER_START + 262, 2>> >>

Triple(dv, off) ==
    <<getUint16(dv, off), getUint16(dv, off + 2), getUint16(dv, off + 4)>>

\* the object literal of parseHeader, every read in bounds
HeaderFields(u8) ==
    LET dv == DataViewOf(u8) IN
    [ varLengthBlockSize   |-> getUint32(dv, HEADER_START + 0),
      sampleSizeEcg        |-> getUint32(dv, HEADER_START + 4),
      offsetVarLengthBlock |-> getUint32(dv, HEADER_START + 8),
      offsetEcgBlock       |-> getUint32(dv, HEADER_START + 12),
      fileVersion          |-> getUint16(dv, HEADER_START + 16),
      firstName            |-> readString(u8, HEADER_START + 18, 40),
      lastName             |-> readString(u8, HEADER_START + 58, 40),
      subjectId            |-> readString(u8, HEADER_START + 98, 20),
      sex                  |-> getUint16(dv, HEADER_START + 118),
      race                 |-> getUint16(dv, HEADER_START + 120),
      birthDate            |-> Triple(dv, HEADER_START + 122),
      recordDate           |-> Triple(dv, HEADER_START + 128),
      fileDate             |-> Triple(dv, HEADER_START + 134),
      startTime            |-> Triple(dv, HEADER_START + 140),
      nLeads               |-> getUint16(dv, HEADER_START + 146),
      leadSpec             |-> [i \in 1..LeadSlots |->
                                   getInt16(dv, HEADER_START + 148 + (i - 1) * 2)],
      leadQuality          |-> [i \in 1..LeadSlots |->
                                   getInt16(dv, HEADER_START + 172 + (i - 1) * 2)],
      resolution           |-> [i \in 1..LeadSlots |->
                                   getInt16(dv, HEADER_START + 196 + (i - 1) * 2)],
      pacemaker            |-> getUint16(dv, HEADER_START + 220),
      recorder             |-> readString(u8, HEADER_START + 222, 40),
      samplingRate         |-> getUint16(dv, HEADER_START + 262),
      proprietary          |-> readString(u8, HEADER_START + 264, 80),
      copyright            |-> readString(u8, HEADER_START + 344, 80) ]

Threw(name, message) == [outcome |-> name, message |-> message, value |-> NoHeader]
Returned(v) == [outcome |-> "ok", message |-> "", value |-> v]

FormatErrorMessage == "Invalid ISHNE file format"

\* building the object literal: the first read outside the DataView throws
ReadHeader(u8) ==
    IF \E i \in 1..Len(HeaderReads) :
            ~InView(DataViewOf(u8), HeaderReads[i][1], HeaderReads[i][2])
    THEN Threw("RangeError", "Offset is outside the bounds of the DataView")
    ELSE Returned(HeaderFields(u8))

\* (mutant) the magic is compared on its first 7 characters only
parseHeaderShortMagic(u8) ==
    IF readString(u8, 0, 7) # SubSeq(Magic, 1, 7)
    THEN Threw("Error", FormatErrorMessage)
    ELSE ReadHeader(u8)

\* what a call of parseHeader on the buffer does: throw, or return the header
parseHeader(u8) ==
    IF readString(u8, 0, 8) # Magic
    THEN Threw("Error", FormatErrorMessage)
    ELSE ReadHeader(u8)

----------------------------------------------------------------------------
(* calculateActualSamples, parseEcgData, getEcgSummary.                    *)

StateErrorMessage == "Header must be parsed first"

\* a call's end: outcome "ok" (value returned), the name of what was thrown,
\* or "diverges" (the call never returns); reads: offsets handed to getInt16
Ended(outcome, message, value, reads) ==
    [outcome |-> outcome, message |-> message, value |-> value, reads |-> reads]

\* (mutant) the sample count the header declares is used as it stands
calculateDeclaredSamples(u8, h) == Fin(h.sampleSizeEcg)

\* Math.floor(availableBytes / (2 * nLeads)), h a parsed header
calculateActualSamples(u8, h) ==
    LET availableBytes == u8.length - h.offsetEcgBlock
    IN  MathFloor(JsDiv(availableBytes, BytesPerSample * h.nLeads))

\* new Array(n) throws RangeError unless n is an integer in 0..2^32-1
ValidArrayLength(x) == x.k = "fin" /\ x.n >= 0

\* byte offset of the sample at index `sample` of lead `lead` (both from 0)
SampleOffset(h, sample, lead) ==
    h.offsetEcgBlock + ((sample * h.nLeads + lead) * BytesPerSample)

\* the reads of the nested loops in the order issued: the j-th read (from 0)
\* is sample j \div nLeads, lead j % nLeads
LoopReads(h, samplesPerLead) ==
    [j \in 1..(samplesPerLead * h.nLeads) |->
        SampleOffset(h, (j - 1) \div h.nLeads, (j - 1) % h.nLeads)]

\* parseEcgData past its guard: allocate, read the multiplexed samples, warn
ReadSamples(u8, h) ==
    LET samplesPerLead == calculateActualSamples(u8, h)
        dv == DataViewOf(u8)
    IN  IF h.nLeads > 0 /\ ~ValidArrayLength(samplesPerLead)
        THEN Ended("RangeError", "Invalid array length", <<>>, <<>>)
        ELSE IF samplesPerLead = PosInf
        \* for (sample = 0; sample < Infinity; sample++) with an empty body
        THEN Ended("diverges", "", <<>>, <<>>)
        ELSE
        LET count == IF samplesPerLead.k = "fin" /\ samplesPerLead.n > 0
                     THEN samplesPerLead.n ELSE 0
            reads == LoopReads(h, count)
            bad == {j \in 1..Len(reads) : ~InView(dv, reads[j], BytesPerSample)}
        IN  IF bad # {}
            THEN LET first == CHOOSE j \in bad : \A k \in bad : j <= k
                 IN  Ended("RangeError",
                           "Offset is outside the bounds of the DataView",
                           <<>>, SubSeq(reads, 1, first))
            ELSE Ended("ok",
                       \* console.warn when the counts differ
                       IF samplesPerLead # Fin(h.sampleSizeEcg)
                       THEN "warn: actual number of samples differs from header"
                       ELSE "",
                       [lead \in 1..h.nLeads |->
                           [sample \in 1..count |->
                               getInt16(dv, SampleOffset(h, sample - 1, lead - 1))]],
                       reads)

\* (mutant) without a header an empty result is returned instead of throwing
parseEcgDataLenient(u8, h) ==
    IF h = NoHeader THEN Ended("ok", "", <<>>, <<>>) ELSE ReadSamples(u8, h)

parseEcgData(u8, h) ==
    IF h = NoHeader THEN Ended("Error", StateErrorMessage, <<>>, <<>>)
    ELSE ReadSamples(u8, h)

\* x / b for a JS number x and an integer b >= 0
JsDivNum(x, b) ==
    IF x.k = "fin" THEN JsDiv(x.n, b)
    ELSE x

getEcgSummary(u8, h) ==
    IF h = NoHeader THEN Ended("Error", StateErrorMessage, <<>>, <<>>)
    ELSE
    LET actualSamples == calculateActualSamples(u8, h)
    IN  Ended("ok", "",
          [ numberOfLeads           |-> h.nLeads,
            declaredSamplesPerLead  |-> h.sampleSizeEcg,
            actualSamplesPerLead    |-> actualSamples,
            samplingRate            |-> h.samplingRate,
            declaredDurationSeconds |-> JsDiv(h.sampleSizeEcg, h.samplingRate),
            actualDurationSeconds   |-> JsDivNum(actualSamples, h.samplingRate),
            dataBlockOffset         |-> h.offsetEcgBlock,
            bytesPerSample          |-> BytesPerSample,
            declaredDataBytes       |-> h.sampleSizeEcg * h.nLeads * BytesPerSample,
            actualDataBytes         |-> u8.length - h.offsetEcgBlock,
            resolution              |-> SubSeq(h.resolution, 1, Min(h.nLeads, LeadSlots)) ],
          <<>>)

----------------------------------------------------------------------------
(* The chunk producers.  A chunk is the sequence of the pieces its string  *)
(* is concatenated from: literal text, or a formatted number.              *)

Lit(s) == [t |-> "lit", s |-> s, n |-> 0, dp |-> 0]

RECURSIVE Pow10(_)
Pow10(dp) == IF dp <= 0 THEN 1 ELSE 10 * Pow10(dp - 1)

Abs(n) == IF n < 0 THEN 0 - n ELSE n

IsNegative(x) == x.k = "fin" /\ ((x.n < 0 /\ x.d > 0) \/ (x.n > 0 /\ x.d < 0))

\* The JS number n / d is the double nearest to the quotient (ties to the even
\* significand).  RoundDir tells where that double lies: 1 above the exact
\* quotient, -1 below, 0 on it.  r / d is what is left of the quotient below
\* the significand bits produced so far, k the bits still to produce, last
\* the lowest bit produced.
RECURSIVE RoundDir(_, _, _, _)
RoundDir(r, d, k, last) ==
    IF r = 0 THEN 0
    ELSE IF k = 0
    THEN IF 2 * r > d \/ (2 * r = d /\ last = 1) THEN 1 ELSE -1
    ELSE LET bit == IF 2 * r >= d THEN 1 ELSE 0
         IN  RoundDir(2 * r - bit * d, d, k - 1, bit)

RECURSIVE BitLength(_)
BitLength(n) == IF n = 0 THEN 0 ELSE 1 + BitLength(n \div 2)

\* a quotient below 1: the fraction bits before the first 1 are not significand
RECURSIVE FromLeadingBit(_, _)
FromLeadingBit(r, d) ==
    IF 2 * r >= d THEN RoundDir(2 * r - d, d, 52, 1) ELSE FromLeadingBit(2 * r, d)

\* of the double n / d against the exact quotient, n >= 0, d > 0
DoubleError(n, d) ==
    IF n % d = 0 THEN 0
    ELSE IF n \div d = 0 THEN FromLeadingBit(n, d)
    ELSE RoundDir(n % d, d, 53 - BitLength(n \div d), (n \div d) % 2)

\* Number.prototype.toFixed: the integer nearest to |x| * 10^dp, x the double;
\* of two equally near the larger one.  The double is off the quotient by less
\* than any fraction of denominator d is off a half, so it decides only when
\* the quotient itself lies half way.
Scaled(x, dp) ==
    LET n == Abs(x.n)
        d == Abs(x.d)
        part == (n % d) * Pow10(dp)
        below == (n \div d) * Pow10(dp) + part \div d
        left == part % d
    IN  IF 2 * left > d THEN below + 1
        ELSE IF 2 * left < d THEN below
        ELSE IF DoubleError(n, d) >= 0 THEN below + 1 ELSE below

NonFiniteText(x) ==
    IF x.k = "+inf" THEN "Infinity" ELSE IF x.k = "-inf" THEN "-Infinity" ELSE "NaN"

\* x.toFixed(dp): sign, digits with dp decimals
ToFixed(x, dp) ==
    IF x.k # "fin" THEN [t |-> "fixed", s |-> NonFiniteText(x), n |-> 0, dp |-> dp]
    ELSE [t |-> "fixed", s |-> IF IsNegative(x) THEN "-" ELSE "",
          n |-> Scaled(x, dp), dp |-> dp]

\* `${Number(x.toFixed(dp))}`: the shortest decimal of the rounded value; -0 prints 0
NumberOfFixed(x, dp) ==
    IF x.k # "fin" THEN [t |-> "number", s |-> NonFiniteText(x), n |-> 0, dp |-> dp]
    ELSE [t |-> "number",
          s |-> IF IsNegative(x) /\ Scaled(x, dp) > 0 THEN "-" ELSE "",
          n |-> Scaled(x, dp), dp |-> dp]

\* rawSample * resolution[lead] / 1000000
\* (resolution[lead] is undefined, the product NaN, from the 13th lead on)
Physical(raw, h, lead) ==
    IF lead > LeadSlots THEN NaN ELSE JsDiv(raw * h.resolution[lead], MicroPerUnit)

\* array.join(separator)
RECURSIVE Join(_, _)
Join(items, sep) ==
    IF Len(items) = 0 THEN <<>>
    ELSE IF Len(items) = 1 THEN <<items[1]>>
    ELSE <<items[1], Lit(sep)>> \o Join(Tail(items), sep)

RECURSIVE Flatten(_)
Flatten(ss) == IF Len(ss) = 0 THEN <<>> ELSE Head(ss) \o Flatten(Tail(ss))

\* what running a generator to its end produces: the chunks it yields, then
\* how it ends ("ok": it returns; otherwise what it throws; "diverges")
Produces(chunks, outcome, message) ==
    [chunks |-> chunks, outcome |-> outcome, message |-> message]

DefaultOptions(o) ==
    [ separator     |-> IF "separator" \in DOMAIN o THEN o.separator ELSE ",",
      includeHeader |-> IF "includeHeader" \in DOMAIN o THEN o.includeHeader ELSE TRUE,
      timeColumn    |-> IF "timeColumn" \in DOMAIN o THEN o.timeColumn ELSE TRUE,
      decimalPlaces |-> IF "decimalPlaces" \in DOMAIN o THEN o.decimalPlaces
                        ELSE DefaultDecimalPlaces ]

TypeErrorMessage == "Cannot read properties of undefined (reading 'length')"

CsvHeaderRow(h, opt) ==
    Join((IF opt.timeColumn THEN <<Lit("Time(s)")>> ELSE <<>>)
         \o [i \in 1..h.nLeads |->
                Lit("Lead" \o ToString(i) \o "(mV)")],
         opt.separator) \o <<Lit("\n")>>

CsvDataRow(h, ecgData, opt, i) ==
    Join((IF opt.timeColumn
          THEN <<ToFixed(JsDiv(i, h.samplingRate), opt.decimalPlaces)>> ELSE <<>>)
         \o [lead \in 1..h.nLeads |->
                ToFixed(Physical(ecgData[lead][i + 1], h, lead), opt.decimalPlaces)],
         opt.separator) \o <<Lit("\n")>>

\* (mutant) the row loop stops one sample early
CsvRowsShort(h, ecgData, opt) ==
    [r \in 1..(Len(ecgData[1]) - 1) |-> CsvDataRow(h, ecgData, opt, r - 1)]

\* the data rows: one per index of ecgData[0]
CsvRows(h, ecgData, opt) ==
    [r \in 1..Len(ecgData[1]) |-> CsvDataRow(h, ecgData, opt, r - 1)]

generateCsvContent(u8, h, options) ==
    IF h = NoHeader THEN Produces(<<>>, "Error", StateErrorMessage)
    ELSE
    LET opt == DefaultOptions(options)
        parsed == parseEcgData(u8, h)
        ecgData == parsed.value
        head == IF opt.includeHeader THEN <<CsvHeaderRow(h, opt)>> ELSE <<>>
    IN  IF parsed.outcome # "ok" THEN Produces(<<>>, parsed.outcome, parsed.message)
        \* ecgData[0].length with no lead: ecgData[0] is undefined
        ELSE IF Len(ecgData) = 0 THEN Produces(head, "TypeError", TypeErrorMessage)
        ELSE Produces(head \o CsvRows(h, ecgData, opt), "ok", "")

\* the value JSON.stringify(metadata, null, 2) serialises
Metadata(h, ecgData) ==
    [ patientInfo |-> [ id |-> h.subjectId, firstName |-> h.firstName,
                        lastName |-> h.lastName, sex |-> h.sex, race |-> h.race,
                        birthDate |-> h.birthDate ],
      recordInfo  |-> [ date |-> h.recordDate, startTime |-> h.startTime,
                        samplingRate |-> h.samplingRate, numberOfLeads |-> h.nLeads,
                        leadResolutions |->
                            SubSeq(h.resolution, 1, Min(h.nLeads, LeadSlots)),
                        duration |-> JsDiv(Len(ecgData[1]), h.samplingRate) ],
      technical   |-> [ fileVersion |-> h.fileVersion, pacemaker |-> h.pacemaker,
                        recorder |-> h.recorder ] ]

Comma(more) == IF more THEN "," ELSE ""

JsonTime(h, ecgData, opt) ==
    IF ~opt.timeColumn THEN <<>>
    ELSE << <<Lit("    \"time\": [\n")>> >>
         \o [r \in 1..Len(ecgData[1]) |->
                << Lit("      "),
                   NumberOfFixed(JsDiv(r - 1, h.samplingRate), opt.decimalPlaces),
                   Lit(Comma(r - 1 < Len(ecgData[1]) - 1)), Lit("\n") >>]
         \o << <<Lit("    ],\n")>> >>

JsonLead(h, ecgData, opt, lead) ==
    << <<Lit("      [\n")>> >>
    \o [r \in 1..Len(ecgData[lead]) |->
           << Lit("        "),
              NumberOfFixed(Physical(ecgData[lead][r], h, lead), opt.decimalPlaces),
              Lit(Comma(r - 1 < Len(ecgData[lead]) - 1)), Lit("\n") >>]
    \o << <<Lit("      ]"), Lit(Comma(lead - 1 < h.nLeads - 1)), Lit("\n")>> >>

generateJsonContent(u8, h, options) ==
    IF h = NoHeader THEN Produces(<<>>, "Error", StateErrorMessage)
    ELSE
    LET opt == DefaultOptions(options)
        parsed == parseEcgData(u8, h)
        ecgData == parsed.value
        open == << <<Lit("{\n  \"metadata\": ")>> >>
    IN  IF parsed.outcome # "ok" THEN Produces(<<>>, parsed.outcome, parsed.message)
        \* duration: ecgData[0].length with no lead
        ELSE IF Len(ecgData) = 0 THEN Produces(open, "TypeError", TypeErrorMessage)
        ELSE Produces(
               open
               \o << <<[t |-> "json", v |-> Metadata(h, ecgData)]>> >>
               \o << <<Lit(",\n  \"data\": {\n")>> >>
               \o JsonTime(h, ecgData, opt)
               \o << <<Lit("    \"leads\": [\n")>> >>
               \o Flatten([lead \in 1..h.nLeads |-> JsonLead(h, ecgData, opt, lead)])
               \o << <<Lit("    ]\n  }\n}")>> >>,
               "ok", "")

----------------------------------------------------------------------------
(* writeStreamToFile and the export operations.                            *)

\* the export record before any export was started
NoExport ==
    [ pc |-> "idle", format |-> "", options |-> [separator |-> ","],
      sink |-> "none", started |-> FALSE, pending |-> <<>>,
      ending |-> "", endMessage |-> "", current |-> <<>>, written |-> <<>>,
      yielded |-> 0, attempts |-> 0, writeFailed |-> FALSE,
      hadHeader |-> FALSE, result |-> "", message |-> "" ]

\* exportToX entered: the generator object exists (its body has not run) and
\* writeStreamToFile awaits Deno.open
Started(format, options) ==
    [NoExport EXCEPT !.pc = "opening", !.format = format, !.options = options]

\* { ...options, separator: '\t' }
WithTab(options) ==
    [k \in DOMAIN options \cup {"separator"} |->
        IF k = "separator" THEN "\t" ELSE options[k]]

\* the generator each export hands to writeStreamToFile
Generator(format, u8, h, options) ==
    IF format = "json" THEN generateJsonContent(u8, h, options)
    ELSE generateCsvContent(u8, h, options)

\* the finally block: writer.close(); file.close(), on every way out of the loop
\* ("ok": the producer returned; "producer": it threw; "write": a write threw)
SinkAfterLeak(exit) == IF exit = "ok" THEN "closed" ELSE "open"   \* (mutant) no finally

SinkAfter(exit) == "closed"

\* the for-await loop is left through the finally block and writeStreamToFile
\* settles with `result`
Settle(e, exit, result, message) ==
    [e EXCEPT !.pc = "done", !.sink = SinkAfter(exit), !.pending = <<>>,
              !.current = <<>>, !.result = result, !.message = message]

\* Deno.open has resolved: the writer is taken and the loop calls
\* content.next() for the first time, which runs the generator body from its
\* top, in the same turn, to its first yield, its return or what it throws;
\* the loop then awaits the result with the sink open.  The body reads
\* this.header and decodes here (hadHeader: whether a header was set), and
\* what it goes on to yield is fixed from here on: this.header is assigned by
\* parseHeader alone, always from the same bytes.  A decode that never
\* returns keeps the thread.
Opened(e, u8, h) ==
    LET run == Generator(e.format, u8, h, e.options)
    IN  [e EXCEPT !.sink = "open", !.started = TRUE, !.hadHeader = (h # NoHeader),
                  !.pending = run.chunks, !.ending = run.outcome,
                  !.endMessage = run.message,
                  !.pc = IF run.outcome = "diverges" THEN "hung" ELSE "streaming"]

\* (mutant) the rejected write is swallowed and the loop goes on
WriteRejectedSwallowed(e) ==
    [e EXCEPT !.attempts = @ + 1, !.writeFailed = TRUE, !.current = <<>>,
              !.pc = "streaming"]

\* await writer.write(...) rejected: the exception leaves the loop body, the
\* loop calls content.return(), which ends the generator where it is
\* suspended, and awaits it; the sink is still open
WriteRejected(e) ==
    [e EXCEPT !.attempts = @ + 1, !.writeFailed = TRUE, !.current = <<>>,
              !.pending = <<>>, !.pc = "returning"]

\* content.return() has settled: finally, and the export rejects with the
\* error of the write
ReturnSettled(e) == Settle(e, "write", "IoError", "write failed")

\* await writer.write(...) resolved: the chunk is in the sink; the loop calls
\* content.next() and awaits it (the body runs on to its next yield or its end)
WriteResolved(e) ==
    [e EXCEPT !.attempts = @ + 1, !.written = Append(@, e.current),
              !.current = <<>>, !.pc = "streaming"]

\* the awaited content.next() has settled and the loop goes on: with a chunk
\* it calls writer.write, on the generator's return or throw it leaves
\* through finally
ProducerStep(e) ==
    IF Len(e.pending) > 0
    THEN [e EXCEPT !.pc = "writing", !.current = Head(e.pending),
                   !.pending = Tail(e.pending), !.yielded = @ + 1]
    ELSE IF e.ending = "ok" THEN Settle(e, "ok", "ok", "")
    ELSE Settle(e, "producer", e.ending, e.endMessage)

----------------------------------------------------------------------------
(* The input files the parser is constructed with.                         *)

Le16(n) == <<n % 256, (n \div 256) % 256>>
Le32(n) == Le16(n % 65536) \o Le16(n \div 65536)

\* a text field: the characters, NUL-padded to the field's width
Field(chars, width) == [i \in 1..width |-> IF i <= Len(chars) THEN chars[i] ELSE 0]

\* end of the fixed header region: the copyright field ends here
HeaderEnd == HEADER_START + 344 + 80

\* the first bytes of a file, by kind of magic
MagicBytes(kind) ==
    IF kind = "ok" THEN Magic
    ELSE IF kind = "bad" THEN <<73, 83, 72, 78, 69, 49, 46, 49>>   \* "ISHNE1.1"
    ELSE IF kind = "nul" THEN <<73, 83, 72, 78, 69, 49, 46, 0>>    \* "ISHNE1.\0"
    ELSE <<105, 83, 72, 78, 69, 49, 46, 48>>                       \* "iSHNE1.0"

\* interleaved samples 300, -32768, 10, -10, repeated
SampleBytes == <<44, 1, 0, 128, 10, 0, 246, 255>>

\* per-lead resolutions of the input headers
Resolutions == <<200, 100, 40, 20, 0, 0, 0, 0, 0, 0, 0, 0>>

RECURSIVE Le16s(_)
Le16s(ns) == IF Len(ns) = 0 THEN <<>> ELSE Le16(Head(ns)) \o Le16s(Tail(ns))

\* a complete file: magic, checksum, the fixed fields of the layout parseHeader
\* reads, then `dataBytes` bytes of samples
FileBytes(magic, declared, offset, nLeads, dataBytes) ==
    MagicBytes(magic) \o <<0, 0>>
    \o Le32(0) \o Le32(declared) \o Le32(512) \o Le32(offset) \o Le16(1)
    \o Field(<<65, 110, 110>>, 40)            \* firstName "Ann"
    \o Field(<<76, 101, 101, 32>>, 40)        \* lastName "Lee " (a trailing blank)
    \o Field(<<80, 49>>, 20)                  \* subjectId "P1"
    \o Le16(2) \o Le16(0)                     \* sex, race
    \o Le16s(<<1, 2, 1960>>)                  \* birthDate
    \o Le16s(<<3, 4, 2020>>)                  \* recordDate
    \o Le16s(<<5, 6, 2021>>)                  \* fileDate
    \o Le16s(<<8, 30, 0>>)                    \* startTime
    \o Le16(nLeads)
    \o Le16s([i \in 1..LeadSlots |-> i])      \* leadSpec
    \o Le16s([i \in 1..LeadSlots |-> 0])      \* leadQuality
    \o Le16s(Resolutions)
    \o Le16(0)                                \* pacemaker
    \o Field(<<82, 101, 99>>, 40)             \* recorder "Rec"
    \o Le16(250)                              \* samplingRate
    \o Field(<<128, 49>>, 80)                 \* proprietary: 0x80 "1"
    \o Field([i \in 1..80 |-> 67], 80)        \* copyright: 80 times "C"
    \o [i \in 1..dataBytes |-> SampleBytes[((i - 1) % Len(SampleBytes)) + 1]]

\* how the Uint8Array sits in its ArrayBuffer
\*   "exact":   the view is the whole ArrayBuffer
\*   "prefix":  the view shows the first `length` bytes of a longer ArrayBuffer
\*   "shifted": the view starts WindowPad bytes into the ArrayBuffer
\*   "embedded": the view is the tail of the ArrayBuffer from byte EmbedAt,
\*               where the magic stands again; the fixed fields the DataView
\*               reads are those at the front of the ArrayBuffer
WindowPad == 2

EmbedAt == HeaderEnd - Len(Magic)

Uint8Array(bytes, length, view) ==
    LET shown == SubSeq(bytes, 1, length) IN
    IF view = "exact" THEN [buffer |-> shown, byteOffset |-> 0, length |-> length]
    ELSE IF view = "prefix"
    THEN [buffer |-> bytes \o [i \in 1..WindowPad |-> 0],
          byteOffset |-> 0, length |-> length]
    ELSE IF view = "shifted"
    THEN [buffer |-> [i \in 1..WindowPad |-> 255] \o shown,
          byteOffset |-> WindowPad, length |-> length]
    ELSE [buffer |-> [i \in 1..length |->
                        IF i > EmbedAt /\ i <= EmbedAt + Len(Magic)
                        THEN Magic[i - EmbedAt] ELSE bytes[i]],
          byteOffset |-> EmbedAt, length |-> length - EmbedAt]

\* lengths that cut the fixed header region short
TruncatedLengths ==
    {0, 7, 8, HEADER_START + 263, HEADER_START + 264, HeaderEnd - 1}

FullLengths == HeaderEnd..(HeaderEnd + MaxDataBytes)

\* text: "high" for the file as FileBytes builds it, with the byte 0x80 in its
\* proprietary field; "ascii" for the same file with a "P" in its place
Input(magic, nLeads, offset, length, view) ==
    [magic |-> magic, nLeads |-> nLeads, offset |-> offset,
     length |-> length, view |-> view, text |-> "high"]

Ascii(in) == [in EXCEPT !.text = "ascii"]

AsciiBytes(bytes) ==
    [i \in 1..Len(bytes) |-> IF i = HEADER_START + 264 + 1 THEN 80 ELSE bytes[i]]

Inputs ==
    {Input("ok", l, o, b, "exact") :
        l \in 0..MaxLeads, o \in {HeaderEnd, HeaderEnd + 2}, b \in FullLengths}
    \cup {Input("ok", 1, HeaderEnd, b, v) :
        b \in TruncatedLengths, v \in {"exact", "prefix"}}
    \cup {Input("ok", 1, HeaderEnd, b, "prefix") :
        b \in {HeaderEnd, HeaderEnd + MaxDataBytes}}
    \cup {Input("ok", 1, 512, b, "shifted") :
        b \in {HeaderEnd, HeaderEnd + MaxDataBytes}}
    \cup {Input("ok", l, Len(Magic), HeaderEnd + MaxDataBytes, "embedded") :
        l \in 1..MaxLeads}
    \cup {Input(m, 1, HeaderEnd, b, "exact") :
        m \in {"bad", "nul", "case"}, b \in {7, HeaderEnd + MaxDataBytes}}

\* the files the exports are run on: samples for several leads,
\* an ECG offset past the end, no lead with and without bytes to decode, and
\* a file that is no ISHNE file
ExportInputs ==
    {Ascii(Input("ok", l, HeaderEnd, HeaderEnd + MaxDataBytes, "exact")) : l \in {0, MaxLeads}}
    \cup {Input("ok", 1, HeaderEnd + 2, HeaderEnd, "exact"),
          Ascii(Input("ok", 0, HeaderEnd, HeaderEnd, "exact")),
          Ascii(Input("bad", 1, HeaderEnd, HeaderEnd + MaxDataBytes, "exact"))}

\* the files a caller that awaits each export runs them on: every number of
\* leads with no sample bytes, with a last sample cut short and with whole
\* samples; an ECG block that starts after the header's end; a view that starts
\* inside its ArrayBuffer; a header with no lead
AwaitedInputs ==
    {Ascii(Input("ok", l, HeaderEnd, b, "exact")) :
        l \in 1..MaxLeads,
        b \in {HeaderEnd, HeaderEnd + MaxDataBytes - 1, HeaderEnd + MaxDataBytes}}
    \cup {Ascii(Input("ok", 1, HeaderEnd + 2, HeaderEnd + MaxDataBytes, "exact")),
          Ascii(Input("ok", MaxLeads, Len(Magic), HeaderEnd + MaxDataBytes, "embedded")),
          Ascii(Input("ok", 0, HeaderEnd, HeaderEnd, "exact"))}

\* new IshneParser(buffer) for an input
BufferOf(in) ==
    LET file == FileBytes(in.magic, DeclaredSamples, in.offset, in.nLeads, MaxDataBytes)
    IN  Uint8Array(IF in.text = "ascii" THEN AsciiBytes(file) ELSE file,
                   in.length, in.view)

\* the decoders differ on the bytes 0x80..0x9F alone: on a file whose text is
\* ASCII they do the same throughout, and one stands for both
DecodersFor(in) == IF in.text = "high" THEN Decoders ELSE {"windows-1252"}

----------------------------------------------------------------------------
(* The parser as a state machine.                                          *)

NoCall ==
    [op |-> "none", hadHeader |-> FALSE, outcome |-> "", message |-> "",
     value |-> <<>>, reads |-> <<>>]

\* the record of a call: hadHeader tells whether this.header was set when it began
Call(op, h, r, reads) ==
    [op |-> op, hadHeader |-> (h # NoHeader), outcome |-> r.outcome,
     message |-> r.message, value |-> r.value, reads |-> reads]

\* options the callers pass: every choice of includeHeader and timeColumn, and
\* an object that leaves both to their defaults
OptionInputs ==
    {[includeHeader |-> a, timeColumn |-> b] : a, b \in BOOLEAN}
    \cup {[decimalPlaces |-> DefaultDecimalPlaces]}

\* the JSON export reads timeColumn and decimalPlaces alone
JsonOptionInputs == {[timeColumn |-> b] : b \in BOOLEAN}

\* a caller that awaits each export before it starts the next passes every one
\* of these options, to each format
AwaitedOptions ==
    [csv |-> OptionInputs, json |-> JsonOptionInputs, text |-> OptionInputs]

\* a caller that keeps two exports in flight: the pairs of exports grow with the
\* square of the options, and the pairs followed are those of these
ConcurrentOptions ==
    [csv  |-> {[includeHeader |-> a, timeColumn |-> a] : a \in BOOLEAN},
     json |-> {[timeColumn |-> TRUE]},
     text |-> {[decimalPlaces |-> DefaultDecimalPlaces]}]

\* the exports in flight are told apart by the slot they were started in;
\* the model follows as many at a time as there are slots
ExportSlots == {1, 2}

NoExports == [s \in ExportSlots |-> NoExport]

\* the constructor: buffer stored, header null
Init ==
    /\ \E in \in ExportInputs :
        /\ buffer = BufferOf(in)
        /\ decoder \in DecodersFor(in)
    /\ header = NoHeader
    /\ lastOp = NoCall
    /\ exports = NoExports

\* the constructor, over the files of the awaited exports
InitAwaited ==
    /\ \E in \in AwaitedInputs :
        /\ buffer = BufferOf(in)
        /\ decoder \in DecodersFor(in)
    /\ header = NoHeader
    /\ lastOp = NoCall
    /\ exports = NoExports

\* the constructor, over the whole input family
InitCalls ==
    /\ \E in \in Inputs :
        /\ buffer = BufferOf(in)
        /\ decoder \in DecodersFor(in)
    /\ header = NoHeader
    /\ lastOp = NoCall
    /\ exports = NoExports

\* a call that never returns holds the only thread for ever
Running ==
    lastOp.outcome # "diverges" /\ \A s \in ExportSlots : exports[s].pc # "hung"

\* every export in flight is suspended in an await (of Deno.open, of
\* content.next() or content.return(), of writer.write, of writeStreamToFile)
\* whenever a step of the model has ended, so the caller's code runs between
\* any two steps
CallerRuns == Running

\* parseHeader(): this.header is assigned only once the whole literal is built
ParseHeader ==
    /\ CallerRuns
    /\ LET r == parseHeader(buffer) IN
        /\ header' = IF r.outcome = "ok" THEN r.value ELSE header
        /\ lastOp' = Call("parseHeader", header, r, <<>>)
    /\ UNCHANGED <<buffer, exports, decoder>>

\* (mutant) the decoder swaps each sample it reads to big-endian in place
ParseEcgDataInPlace ==
    /\ CallerRuns
    /\ LET r == parseEcgData(buffer, header)
           dv == DataViewOf(buffer)
           touched == {r.reads[i] : i \in 1..Len(r.reads)}
       IN
        /\ lastOp' = Call("parseEcgData", header, r, r.reads)
        /\ buffer' = [buffer EXCEPT !.buffer =
              [k \in 1..Len(dv) |->
                  IF (k - 1) \in touched /\ k + 1 <= Len(dv) THEN dv[k + 1]
                  ELSE IF (k - 2) \in touched THEN dv[k - 1]
                  ELSE dv[k]]]
    /\ UNCHANGED <<header, exports, decoder>>

ParseEcgData ==
    /\ CallerRuns
    /\ LET r == parseEcgData(buffer, header) IN
        lastOp' = Call("parseEcgData", header, r, r.reads)
    /\ UNCHANGED <<buffer, header, exports, decoder>>

GetEcgSummary ==
    /\ CallerRuns
    /\ LET r == getEcgSummary(buffer, header) IN
        lastOp' = Call("getEcgSummary", header, r, <<>>)
    /\ UNCHANGED <<buffer, header, exports, decoder>>

\* the export operations test nothing: an export is accepted whatever others
\* are in flight; the model follows it while a slot is free
FreeSlots == {s \in ExportSlots : exports[s].pc = "idle"}

CanExport == Running /\ FreeSlots # {}

\* the export enters the lowest free slot
Begin(e) ==
    LET s == CHOOSE f \in FreeSlots : \A g \in FreeSlots : f <= g
    IN  exports' = [exports EXCEPT ![s] = e]

ExportToJson(options) ==
    /\ CanExport
    /\ Begin(Started("json", options))
    /\ UNCHANGED <<buffer, header, lastOp, decoder>>

ExportToCsv(options) ==
    /\ CanExport
    /\ Begin(Started("csv", options))
    /\ UNCHANGED <<buffer, header, lastOp, decoder>>

ExportToText(options) ==
    /\ CanExport
    /\ Begin(Started("text", WithTab(options)))
    /\ UNCHANGED <<buffer, header, lastOp, decoder>>

\* Deno.open resolves: the sink is open, the generator has been asked for
\* its first chunk
OpenResolved ==
    /\ Running
    /\ \E s \in ExportSlots :
        /\ exports[s].pc = "opening"
        /\ exports' = [exports EXCEPT ![s] = Opened(@, buffer, header)]
    /\ UNCHANGED <<buffer, header, lastOp, decoder>>

\* Deno.open rejects: no sink was opened, the export fails
OpenRejected ==
    /\ Running
    /\ \E s \in ExportSlots :
        /\ exports[s].pc = "opening"
        /\ exports' = [exports EXCEPT ![s] =
              [@ EXCEPT !.pc = "done", !.result = "IoError", !.message = "open failed"]]
    /\ UNCHANGED <<buffer, header, lastOp, decoder>>

ProducerNext ==
    /\ Running
    /\ \E s \in ExportSlots :
        /\ exports[s].pc = "streaming"
        /\ exports' = [exports EXCEPT ![s] = ProducerStep(@)]
    /\ UNCHANGED <<buffer, header, lastOp, decoder>>

WriteOk ==
    /\ Running
    /\ \E s \in ExportSlots :
        /\ exports[s].pc = "writing"
        /\ exports' = [exports EXCEPT ![s] = WriteResolved(@)]
    /\ UNCHANGED <<buffer, header, lastOp, decoder>>

WriteFail ==
    /\ Running
    /\ \E s \in ExportSlots :
        /\ exports[s].pc = "writing"
        /\ exports[s].attempts < FailWithin
        /\ exports' = [exports EXCEPT ![s] = WriteRejected(@)]
    /\ UNCHANGED <<buffer, header, lastOp, decoder>>

\* the generator has been returned after a failed write
ProducerReturned ==
    /\ Running
    /\ \E s \in ExportSlots :
        /\ exports[s].pc = "returning"
        /\ exports' = [exports EXCEPT ![s] = ReturnSettled(@)]
    /\ UNCHANGED <<buffer, header, lastOp, decoder>>

\* the caller's await of the export resumes with the result or the exception
ExportSettled ==
    /\ Running
    /\ \E s \in ExportSlots :
        /\ exports[s].pc = "done"
        /\ exports' = [exports EXCEPT ![s] = NoExport]
    /\ UNCHANGED <<buffer, header, lastOp, decoder>>

Next ==
    \/ ParseHeader
    \/ ParseEcgData
    \/ GetEcgSummary
    \/ \E o \in ConcurrentOptions.json : ExportToJson(o)
    \/ \E o \in ConcurrentOptions.csv : ExportToCsv(o)
    \/ \E o \in ConcurrentOptions.text : ExportToText(o)
    \/ OpenResolved
    \/ OpenRejected
    \/ ProducerNext
    \/ WriteOk
    \/ WriteFail
    \/ ProducerReturned
    \/ ExportSettled

Spec == Init /\ [][Next]_vars

\* every export the caller started has settled and been awaited
Awaited == \A s \in ExportSlots : exports[s].pc = "idle"

\* a caller that awaits each export before it starts the next, and may call
\* the synchronous methods while the export is in flight
NextAwaited ==
    \/ ParseHeader
    \/ ParseEcgData
    \/ GetEcgSummary
    \/ Awaited /\ \E o \in AwaitedOptions.json : ExportToJson(o)
    \/ Awaited /\ \E o \in AwaitedOptions.csv : ExportToCsv(o)
    \/ Awaited /\ \E o \in AwaitedOptions.text : ExportToText(o)
    \/ OpenResolved
    \/ OpenRejected
    \/ ProducerNext
    \/ WriteOk
    \/ WriteFail
    \/ ProducerReturned
    \/ ExportSettled

SpecAwaited == InitAwaited /\ [][NextAwaited]_vars

\* the synchronous methods alone, over the whole input family
NextCalls ==
    \/ ParseHeader
    \/ ParseEcgData
    \/ GetEcgSummary

SpecCalls == InitCalls /\ [][NextCalls]_vars

----------------------------------------------------------------------------
(* Properties.                                                             *)

\* the error kinds of the specification, as the code raises them
IsStateError(c) == c.outcome = "Error" /\ c.message = StateErrorMessage
IsFormatError(c) == c.outcome = "Error" /\ c.message = FormatErrorMessage

\* floor((B - O) / (2 * L)) for buffer length B, ECG block offset O, L leads
BufferDerivedCount(u8, h) == (u8.length - h.offsetEcgBlock) \div (2 * h.nLeads)

\* nLeads in 1..12, samplingRate > 0, ecgBlockOffset <= buffer length
ValidHeader(u8, h) ==
    /\ h # NoHeader
    /\ h.nLeads \in 1..12
    /\ h.samplingRate > 0
    /\ h.offsetEcgBlock <= u8.length

\* C1: an export whose sink was opened has released it when it ends, whether
\* the producer returned, the producer threw or a write failed; the sink is
\* open only while the export is in flight, and an export ends with no sink
\* only when opening it failed.
C1_SinkReleasedOnEveryExit ==
    \A s \in ExportSlots :
        LET e == exports[s] IN
        /\ e.sink = "open" => e.pc \in {"streaming", "writing", "returning", "hung"}
        /\ e.pc = "done" =>
              \/ e.sink = "closed"
              \/ e.sink = "none" /\ ~e.started /\ e.result = "IoError"

\* an export ended because sample decoding threw inside the producer, its sink
\* closed, while another export holds its own sink open
C1_Witness ==
    \E s, t \in ExportSlots :
        /\ exports[s].pc = "done" /\ exports[s].started /\ exports[s].sink = "closed"
        /\ exports[s].result = "RangeError" /\ ~exports[s].writeFailed
        /\ exports[t].sink = "open"

\* C2: once a write to the sink has failed the export only ends, and in
\* failure: the failed write is the last write attempted and the chunk it
\* carried the last chunk the producer handed over, nothing more reaches the
\* sink, and the result is the failure, never success.
C2_FailedWriteEndsExport ==
    /\ [](\A s \in ExportSlots :
            LET e == exports[s] IN
            e.writeFailed =>
                /\ e.pc \in {"returning", "done"}
                /\ e.pc = "done" => e.result = "IoError"
                /\ e.result # "ok"
                /\ e.pending = <<>>
                /\ e.yielded = e.attempts
                /\ e.attempts = Len(e.written) + 1)
    /\ [][\A s \in ExportSlots :
            (exports[s].writeFailed /\ exports'[s].writeFailed) =>
                /\ exports'[s].yielded = exports[s].yielded
                /\ exports'[s].attempts = exports[s].attempts
                /\ exports'[s].written = exports[s].written
                /\ exports'[s].pc \in {exports[s].pc, "done"}]_vars

\* an export has failed on a write that came after one that succeeded, with
\* chunks still to come
C2_Witness ==
    \E s \in ExportSlots :
        LET e == exports[s] IN
        /\ e.writeFailed /\ e.pc = "done" /\ Len(e.written) >= 1
        /\ e.yielded < Len(Generator(e.format, buffer, header, e.options).chunks)

\* C3: every 16-bit read parseEcgData issues covers two bytes of the buffer: the
\* bytes read are bytes at - byteOffset and the next of the Uint8Array, both
\* inside [0, B), B the length of the Uint8Array, whatever the header says.
C3_ReadsInsideBuffer ==
    lastOp.op = "parseEcgData" =>
        \A i \in 1..Len(lastOp.reads) :
            LET at == lastOp.reads[i] - buffer.byteOffset
            IN  at >= 0 /\ at + 2 <= buffer.length

\* C4: with nLeads = 0 in the parsed header parseEcgData fails with a format
\* error; it neither returns samples nor runs for ever.
C4_ZeroLeadsIsFormatError ==
    (lastOp.op = "parseEcgData" /\ header # NoHeader /\ header.nLeads = 0)
        => IsFormatError(lastOp)

\* C5: without a successful parseHeader before them, parseEcgData,
\* getEcgSummary and the chunk producers fail with the state error (the
\* producer before yielding anything); they succeed only with a header, and a
\* header exists only once a parseHeader call has succeeded.
C5_StateErrorWithoutHeader ==
    /\ [](/\ (lastOp.op \in {"parseEcgData", "getEcgSummary"} /\ ~lastOp.hadHeader)
                => IsStateError(lastOp)
          /\ (lastOp.op \in {"parseEcgData", "getEcgSummary"} /\ lastOp.outcome = "ok")
                => lastOp.hadHeader
          /\ \A s \in ExportSlots :
                LET e == exports[s] IN
                /\ (e.started /\ ~e.hadHeader)
                      => /\ e.yielded = 0 /\ e.pending = <<>>
                         /\ e.ending = "Error" /\ e.endMessage = StateErrorMessage
                         /\ e.pc \in {"streaming", "done"}
                         /\ e.pc = "done"
                               => (e.result = "Error" /\ e.message = StateErrorMessage)
                /\ e.result = "ok" => e.hadHeader)
    /\ [][/\ (header = NoHeader /\ header' # NoHeader)
                => (lastOp'.op = "parseHeader" /\ lastOp'.outcome = "ok")
          /\ exports' = exports => lastOp'.hadHeader = (header # NoHeader)
          /\ \A s \in ExportSlots :
                (~exports[s].started /\ exports'[s].started)
                    => exports'[s].hadHeader = (header # NoHeader)]_vars

\* an export's producer failed with the state error, and the export ended with
\* it, although parseHeader succeeded while the export was in flight
C5_Witness ==
    /\ lastOp.op = "parseHeader" /\ lastOp.outcome = "ok" /\ header # NoHeader
    /\ \E s \in ExportSlots :
        /\ exports[s].pc = "done" /\ exports[s].started /\ ~exports[s].hadHeader
        /\ exports[s].message = StateErrorMessage

\* C6: parseHeader fails with the format error on every buffer whose first 8
\* bytes are not the bytes of "ISHNE1.0" (shorter buffers included), and then
\* no header is stored.
C6_BadMagicIsFormatError ==
    (lastOp.op = "parseHeader" /\ Slice(buffer, 0, 8) # Magic)
        => (IsFormatError(lastOp) /\ lastOp.value = NoHeader /\ header = NoHeader)

\* parseHeader rejected a buffer long enough for a header whose magic is wrong
C6_Witness ==
    /\ lastOp.op = "parseHeader" /\ buffer.length >= HeaderEnd
    /\ Slice(buffer, 0, 8) # Magic /\ IsFormatError(lastOp)

\* C7: parseHeader fails on every buffer that starts with the magic but is
\* shorter than the fixed header region; it returns and stores no header
\* built from a truncated region.
C7_TruncatedHeaderRejected ==
    (lastOp.op = "parseHeader" /\ Slice(buffer, 0, 8) = Magic
        /\ buffer.length < HeaderEnd)
        => (lastOp.outcome # "ok" /\ header = NoHeader)

\* C8: with nLeads = L in 1..12 and buffer length B >= ecgBlockOffset = O,
\* parseEcgData succeeds and returns L sequences, each of floor((B - O) / (2L))
\* samples, whatever count the header declares.
C8_BufferDerivedLength ==
    (lastOp.op = "parseEcgData" /\ header # NoHeader /\ header.nLeads \in 1..12
        /\ buffer.length >= header.offsetEcgBlock)
        => /\ lastOp.outcome = "ok"
           /\ Len(lastOp.value) = header.nLeads
           /\ \A l \in 1..header.nLeads :
                 Len(lastOp.value[l]) = BufferDerivedCount(buffer, header)

\* a decode that returned samples, their number not the declared one
C8_Witness ==
    /\ lastOp.op = "parseEcgData" /\ lastOp.outcome = "ok"
    /\ header.nLeads \in 1..12 /\ buffer.length >= header.offsetEcgBlock
    /\ BufferDerivedCount(buffer, header) >= 1
    /\ BufferDerivedCount(buffer, header) # header.sampleSizeEcg

\* reading a written chunk stream back
IncludeHeaderSet(o) == IF "includeHeader" \in DOMAIN o THEN o.includeHeader ELSE TRUE
EndsWithLineBreak(chunk) == Len(chunk) > 0 /\ chunk[Len(chunk)] = Lit("\n")
IsDataRow(chunk) == \E i \in 1..Len(chunk) : chunk[i].t = "fixed"
\* a column-header row: the column names in their order, "Time(s)" first if it
\* is there, then "Lead1(mV)", "Lead2(mV)", ..., with a separator between two
\* names and the line break after the last (the line break alone with no column)
IsHeaderRow(chunk) ==
    LET body == SubSeq(chunk, 1, Len(chunk) - 1)
        cols == (Len(body) + 1) \div 2
        time == IF cols >= 1 /\ body[1] = Lit("Time(s)") THEN 1 ELSE 0
    IN  /\ EndsWithLineBreak(chunk)
        /\ \A i \in 1..Len(chunk) : chunk[i].t = "lit"
        /\ Len(body) = 0 \/ Len(body) % 2 = 1
        /\ \A k \in 1..cols :
              k > time => body[2 * k - 1] = Lit("Lead" \o ToString(k - time) \o "(mV)")
IsLeadOpen(chunk) == chunk = <<Lit("      [\n")>>
IsLeadClose(chunk) == Len(chunk) = 3 /\ chunk[1] = Lit("      ]")
IsLeadElement(chunk) ==
    Len(chunk) = 4 /\ chunk[1] = Lit("        ") /\ chunk[2].t = "number"

\* the lengths of the arrays of data.leads in a written JSON document: for
\* each array opened after the "leads" key, the elements up to its close
JsonLeadLengths(w) ==
    LET key == {i \in 1..Len(w) : w[i] = <<Lit("    \"leads\": [\n")>>}
        opens == {i \in 1..Len(w) : IsLeadOpen(w[i]) /\ \E k \in key : k < i}
        CloseOf(i) == CHOOSE j \in (i + 1)..Len(w) :
                          IsLeadClose(w[j]) /\ \A k \in (i + 1)..(j - 1) : ~IsLeadClose(w[k])
    IN  [i \in opens |->
            IF \A k \in (i + 1)..(CloseOf(i) - 1) : IsLeadElement(w[k])
            THEN CloseOf(i) - i - 1 ELSE -1]

\* C9: for every valid header and buffer and every choice of includeHeader and
\* timeColumn, a completed CSV or text export has written one chunk per data
\* row, floor((B - O) / (2L)) of them, after exactly one column-header row iff
\* includeHeader is set (it is when the option is left out), every chunk ending
\* in a line break; a completed JSON export has written nLeads arrays under
\* "leads", each of that many elements.  The declared count plays no part.
C9_ExportCountsFollowBuffer ==
    \A s \in ExportSlots :
    (exports[s].pc = "done" /\ exports[s].result = "ok" /\ ValidHeader(buffer, header)) =>
        LET n == BufferDerivedCount(buffer, header)
            w == exports[s].written
            heads == IF IncludeHeaderSet(exports[s].options) THEN 1 ELSE 0
        IN  IF exports[s].format = "json"
            THEN LET lengths == JsonLeadLengths(w)
                 IN  /\ Cardinality(DOMAIN lengths) = header.nLeads
                     /\ \A i \in DOMAIN lengths : lengths[i] = n
            ELSE /\ Len(w) = n + heads
                 /\ \A i \in 1..Len(w) : EndsWithLineBreak(w[i])
                 /\ Cardinality({i \in 1..Len(w) : IsDataRow(w[i])}) = n
                 /\ Cardinality({i \in 1..Len(w) : IsHeaderRow(w[i])}) = heads
                 /\ heads = 1 => IsHeaderRow(w[1])

\* a completed CSV export with a header row and no time column, of a file of
\* several leads whose rows are more than the samples the header declares
C9_Witness ==
    \E s \in ExportSlots :
        /\ exports[s].pc = "done" /\ exports[s].result = "ok" /\ exports[s].format = "csv"
        /\ "timeColumn" \in DOMAIN exports[s].options
        /\ ~exports[s].options.timeColumn /\ exports[s].options.includeHeader
        /\ ValidHeader(buffer, header) /\ header.nLeads >= 2
        /\ BufferDerivedCount(buffer, header) > header.sampleSizeEcg
        /\ Len(exports[s].written) = BufferDerivedCount(buffer, header) + 1

\* C10: parseHeader is idempotent: no operation changes the buffer or a header
\* once parsed, so a parseHeader call made when a header exists, whatever was
\* called in between, succeeds and returns that same header.
C10_ParseHeaderIdempotent ==
    [][/\ buffer' = buffer
       /\ header # NoHeader => header' = header
       /\ (header # NoHeader /\ exports' = exports /\ lastOp'.op = "parseHeader")
             => (lastOp'.outcome = "ok" /\ lastOp'.value = header)]_vars

\* parseHeader called again, successfully, on a parser that has exported
C10_Witness ==
    /\ lastOp.op = "parseHeader" /\ lastOp.hadHeader /\ lastOp.outcome = "ok"
    /\ \E s \in ExportSlots :
        /\ exports[s].pc = "done" /\ exports[s].result = "ok"
        /\ Len(exports[s].written) >= 1

\* the little-endian signed 16-bit integer stored at byte offset off of the
\* Uint8Array itself (its own bytes off and off + 1)
Int16OfBuffer(u8, off) ==
    LET u == ByteAt(u8, off) + 256 * ByteAt(u8, off + 1)
    IN  IF u >= 32768 THEN u - 65536 ELSE u

\* C11: for a valid header and buffer, the value parseEcgData returns at lead
\* l, position s is the little-endian signed 16-bit integer stored at byte
\* offset O + (s * nLeads + l) * 2 of the buffer, and distinct (lead,
\* position) pairs take distinct buffer samples.
C11_SampleIsBufferInt16 ==
    (lastOp.op = "parseEcgData" /\ lastOp.outcome = "ok" /\ ValidHeader(buffer, header)) =>
        LET n == BufferDerivedCount(buffer, header)
            pairs == (0..(header.nLeads - 1)) \X (0..(n - 1))
        IN  /\ \A p \in pairs :
                   lastOp.value[p[1] + 1][p[2] + 1]
                       = Int16OfBuffer(buffer, SampleOffset(header, p[2], p[1]))
            /\ \A p, q \in pairs :
                   SampleOffset(header, p[2], p[1]) = SampleOffset(header, q[2], q[1])
                       => p = q

====
